---- MODULE Spec2Model ----
(***************************************************************************)
(* Ultimate bending resistance MRd of a rectangular reinforced-concrete    *)
(* section by the fibre method (src/Mrd.py).                               *)
(*                                                                         *)
(* The program computes in Python floats (IEEE-754 binary64), and several  *)
(* of its properties are decided by rounding, so the model computes in     *)
(* binary64 too: a float is a record [s, m, e] of value s * m * 2^e with a *)
(* 53-bit significand m, held in 14-bit limbs because TLC's integers are   *)
(* 32 bits wide.  Every operation rounds to nearest, ties to even, as the  *)
(* hardware does.  The values stay in the normal range of the format for   *)
(* the inputs explored; subnormals, infinities and overflow are not        *)
(* modelled.                                                               *)
(*                                                                         *)
(* The one operation that is not correctly rounded is the square           *)
(* (1.0 - eta)**2 of the concrete law, which Python hands to the C         *)
(* library's pow.  Its value depends on the library, so the model leaves   *)
(* it open: pow_tab records, for every argument met so far, which of the   *)
(* two doubles around the exact square pow returns there, and each         *)
(* evaluation of the resultants extends it by a free choice.  pow is a     *)
(* function, so an argument met again gets the value it got before.        *)
(***************************************************************************)
EXTENDS Integers, Sequences, FiniteSets, TLC

\* ---- natural numbers of any size: little-endian sequences of 14-bit limbs ----
LimbBits == 14
LimbBase == 16384

RECURSIVE Pow2(_)
Pow2(k) == IF k = 0 THEN 1 ELSE 2 * Pow2(k - 1)

Limb(a, i) == IF i <= Len(a) THEN a[i] ELSE 0

RECURSIVE BTrim(_)
BTrim(a) == IF Len(a) > 0 /\ a[Len(a)] = 0 THEN BTrim(SubSeq(a, 1, Len(a) - 1)) ELSE a

RECURSIVE BFromInt(_)
BFromInt(n) == IF n = 0 THEN <<>> ELSE <<n % LimbBase>> \o BFromInt(n \div LimbBase)

RECURSIVE BAddFrom(_, _, _, _)
BAddFrom(a, b, i, carry) ==
  IF i > Len(a) /\ i > Len(b)
  THEN (IF carry = 0 THEN <<>> ELSE <<carry>>)
  ELSE <<(Limb(a, i) + Limb(b, i) + carry) % LimbBase>>
         \o BAddFrom(a, b, i + 1, (Limb(a, i) + Limb(b, i) + carry) \div LimbBase)
BAdd(a, b) == BAddFrom(a, b, 1, 0)

\* a - b for a >= b
RECURSIVE BSubFrom(_, _, _, _)
BSubFrom(a, b, i, borrow) ==
  IF i > Len(a) THEN <<>>
  ELSE IF a[i] - Limb(b, i) - borrow < 0
       THEN <<a[i] - Limb(b, i) - borrow + LimbBase>> \o BSubFrom(a, b, i + 1, 1)
       ELSE <<a[i] - Limb(b, i) - borrow>> \o BSubFrom(a, b, i + 1, 0)
BSub(a, b) == BTrim(BSubFrom(a, b, 1, 0))

\* -1, 0, 1 as a < b, a = b, a > b (a, b trimmed)
RECURSIVE BCmpFrom(_, _, _)
BCmpFrom(a, b, i) ==
  IF i = 0 THEN 0
  ELSE IF a[i] < b[i] THEN -1
  ELSE IF a[i] > b[i] THEN 1
  ELSE BCmpFrom(a, b, i - 1)
BCmp(a, b) ==
  IF Len(a) < Len(b) THEN -1
  ELSE IF Len(a) > Len(b) THEN 1
  ELSE BCmpFrom(a, b, Len(a))

\* a * k + carry for a small k (0 <= k < LimbBase)
RECURSIVE BMulSmallFrom(_, _, _, _)
BMulSmallFrom(a, k, i, carry) ==
  IF i > Len(a) THEN (IF carry = 0 THEN <<>> ELSE <<carry>>)
  ELSE <<(a[i] * k + carry) % LimbBase>>
         \o BMulSmallFrom(a, k, i + 1, (a[i] * k + carry) \div LimbBase)
BMulSmall(a, k) == IF k = 0 THEN <<>> ELSE BMulSmallFrom(a, k, 1, 0)

RECURSIVE BZeros(_)
BZeros(q) == IF q = 0 THEN <<>> ELSE <<0>> \o BZeros(q - 1)

RECURSIVE BMulFrom(_, _, _)
BMulFrom(a, b, j) ==
  IF j > Len(b) THEN <<>>
  ELSE BAdd(BZeros(j - 1) \o BMulSmall(a, b[j]), BMulFrom(a, b, j + 1))
BMul(a, b) == IF a = <<>> \/ b = <<>> THEN <<>> ELSE BMulFrom(a, b, 1)

BShl(a, k) ==
  IF a = <<>> THEN <<>>
  ELSE BZeros(k \div LimbBits) \o BMulSmall(a, Pow2(k % LimbBits))

\* floor(a / 2^(LimbBits * q + r)), lo = 2^r, hi = 2^(LimbBits - r)
BShrBy(a, q, lo, hi) ==
  IF q >= Len(a) THEN <<>>
  ELSE BTrim([i \in 1..(Len(a) - q) |->
                (a[i + q] \div lo) + (Limb(a, i + q + 1) % lo) * hi])
BShr(a, k) ==
  BShrBy(a, k \div LimbBits, Pow2(k % LimbBits), Pow2(LimbBits - (k % LimbBits)))

RECURSIVE IntBits(_)
IntBits(n) == IF n = 0 THEN 0 ELSE 1 + IntBits(n \div 2)

BBits(a) == IF a = <<>> THEN 0 ELSE LimbBits * (Len(a) - 1) + IntBits(a[Len(a)])

BOdd(a) == a # <<>> /\ a[1] % 2 = 1

\* the largest q <= q0 with d * q <= r
RECURSIVE BFixQ(_, _, _)
BFixQ(r, d, q) == IF BCmp(BMulSmall(d, q), r) > 0 THEN BFixQ(r, d, q - 1) ELSE q

IntMin(a, b) == IF a < b THEN a ELSE b

\* floor(r / d) for r < d * LimbBase, d of 4 limbs with d[4] >= LimbBase / 2
BQuotDigit(r, d) ==
  BFixQ(r, d, IntMin(LimbBase - 1, (Limb(r, 5) * LimbBase + Limb(r, 4)) \div d[4]))

\* long division: <<floor(r * LimbBase^k / d), remainder # 0>> for r < d
RECURSIVE BDivFrom(_, _, _, _)
BDivDigit(r1, d, k, q, qd) == BDivFrom(BSub(r1, BMulSmall(d, qd)), d, k - 1, <<qd>> \o q)
BDivFrom(r, d, k, q) ==
  IF k = 0 THEN <<BTrim(q), r # <<>>>>
  ELSE IF r = <<>> THEN BDivDigit(<<>>, d, k, q, 0)
  ELSE BDivDigit(<<0>> \o r, d, k, q, BQuotDigit(<<0>> \o r, d))

\* ---- IEEE-754 binary64 values in the normal range: s * m * 2^e, 2^52 <= m < 2^53 ----
MantBits == 53
Zero == [s |-> 0, m |-> <<>>, e |-> 0]

\* q1 of 53 or 54 bits to a float
FNorm(s, q1, e) ==
  IF BBits(q1) > MantBits THEN [s |-> s, m |-> BShr(q1, 1), e |-> e + 1]
  ELSE [s |-> s, m |-> q1, e |-> e]

\* t = floor(P / 2^(sh-1)) holds the 53 kept bits q and the half bit; round half to even
FRoundHalf(s, P, e, sh, t, q) ==
  FNorm(s, IF BOdd(t) /\ (BOdd(q) \/ BCmp(BShl(t, sh - 1), P) # 0)
           THEN BAdd(q, <<1>>) ELSE q, e + sh)

FRoundCut(s, P, e, sh, t) == FRoundHalf(s, P, e, sh, t, BShr(t, 1))

\* the double nearest to s * P * 2^e (round half to even), P > 0 of n bits
FRoundBits(s, P, e, n) ==
  IF n <= MantBits
  THEN [s |-> s, m |-> BShl(P, MantBits - n), e |-> e - (MantBits - n)]
  ELSE FRoundCut(s, P, e, n - MantBits, BShr(P, n - MantBits - 1))

FRound(s, P, e) == FRoundBits(s, P, e, BBits(P))

IntAbs(n) == IF n < 0 THEN -n ELSE n
IntSign(n) == IF n < 0 THEN -1 ELSE IF n > 0 THEN 1 ELSE 0

FInt(n) == IF n = 0 THEN Zero ELSE FRound(IntSign(n), BFromInt(IntAbs(n)), 0)

FNeg(x) == [x EXCEPT !.s = -x.s]
FAbs(x) == [x EXCEPT !.s = IntAbs(x.s)]

FMul(x, y) ==
  IF x.s = 0 \/ y.s = 0 THEN Zero
  ELSE FRound(x.s * y.s, BMul(x.m, y.m), x.e + y.e)

\* x / y for y # 0: 57 quotient bits and a sticky bit, then rounded
FDivSticky(s, qr, e) ==
  FRound(s, BAdd(BMulSmall(qr[1], 2), IF qr[2] THEN <<1>> ELSE <<>>), e)

FDivScaled(s, n, d, e) ==
  IF BCmp(n, d) >= 0
  THEN FDivSticky(s, BDivFrom(BSub(n, d), d, 4, <<1>>), e)
  ELSE FDivSticky(s, BDivFrom(n, d, 4, <<>>), e)

FDiv(x, y) ==
  IF x.s = 0 THEN Zero
  ELSE FDivScaled(x.s * y.s, BMulSmall(x.m, 8), BMulSmall(y.m, 8), x.e - y.e - 57)

\* magnitude comparison of nonzero values: -1, 0, 1
FCmpMag(x, y) ==
  IF x.e < y.e THEN -1 ELSE IF x.e > y.e THEN 1 ELSE BCmp(x.m, y.m)

\* X * 2^e and Y * 2^e with signs sx, sy; c compares X with Y
FAddSigned(sx, X, sy, Y, e, c) ==
  IF sx = sy THEN FRound(sx, BAdd(X, Y), e)
  ELSE IF c = 0 THEN Zero
  ELSE FRound(IF c > 0 THEN sx ELSE sy, IF c > 0 THEN BSub(X, Y) ELSE BSub(Y, X), e)

FAddAligned(sx, X, sy, Y, e) == FAddSigned(sx, X, sy, Y, e, BCmp(X, Y))

FAdd(x, y) ==
  IF x.s = 0 THEN y
  ELSE IF y.s = 0 THEN x
  ELSE IF x.e - y.e > 56 THEN x
  ELSE IF y.e - x.e > 56 THEN y
  ELSE FAddAligned(x.s, BShl(x.m, x.e - IntMin(x.e, y.e)),
                   y.s, BShl(y.m, y.e - IntMin(x.e, y.e)), IntMin(x.e, y.e))

FSub(x, y) == FAdd(x, FNeg(y))

FLt(x, y) ==
  IF x.s # y.s THEN x.s < y.s
  ELSE IF x.s = 0 THEN FALSE
  ELSE IF x.s = 1 THEN FCmpMag(x, y) < 0
  ELSE FCmpMag(x, y) > 0
FLe(x, y) == ~FLt(y, x)
FGt(x, y) == FLt(y, x)
FGe(x, y) == ~FLt(x, y)
FMax(x, y) == IF FGt(y, x) THEN y ELSE x

\* values that are not numbers: float('nan'), and Python's None
NaN == [s |-> 2, m |-> <<>>, e |-> 0]
None == [s |-> 3, m |-> <<>>, e |-> 0]
IsNum(x) == x.s \in {-1, 0, 1}

\* the double a decimal literal n/d denotes (n, d exact doubles)
Dec(n, d) == FDiv(FInt(n), FInt(d))
Half == Dec(1, 2)
One == FInt(1)

\* ---- Materials (dataclass defaults) and the design strengths ----
Materials ==
  [fck_MPa |-> FInt(30), fyk_MPa |-> FInt(500), gamma_c |-> Dec(15, 10),
   gamma_s |-> Dec(115, 100), alpha_cc |-> Dec(85, 100), Es_MPa |-> FInt(200000),
   eps_c2 |-> Dec(20, 10000), eps_cu2 |-> Dec(35, 10000)]

fcd(mat) == FDiv(FMul(mat.alpha_cc, mat.fck_MPa), mat.gamma_c)
fyd(mat) == FDiv(mat.fyk_MPa, mat.gamma_s)

\* ---- area_barras: sum(math.pi * (d**2) / 4.0 for d in diams_mm), d integers ----
Pi == [s |-> 1, m |-> <<11544, 4368, 8117, 1608>>, e |-> -51]
RECURSIVE AreaSum(_, _, _)
AreaSum(diams_mm, i, total) ==
  IF i > Len(diams_mm) THEN total
  ELSE AreaSum(diams_mm, i + 1,
               FAdd(total, FDiv(FMul(Pi, FInt(diams_mm[i] * diams_mm[i])), FInt(4))))
area_barras(diams_mm) == AreaSum(diams_mm, 1, Zero)

\* ---- material laws ----
\* x**2 is the C library's pow(x, 2.0), which is accurate to less than one unit in
\* the last place but not correctly rounded: its value is one of the two doubles
\* that bracket the exact square, or the square itself when that is a double.
\* P = x.m * x.m of n bits, cut to 53 bits
FSquareCut(P, e, n) == [s |-> 1, m |-> BShr(P, n - MantBits), e |-> e + (n - MantBits)]
FSquareNext(P, e, n, q) ==
  IF BCmp(BShl(q, n - MantBits), P) = 0 THEN [s |-> 1, m |-> q, e |-> e + (n - MantBits)]
  ELSE FNorm(1, BAdd(q, <<1>>), e + (n - MantBits))
FSquareDownBits(P, e, n) == IF n <= MantBits THEN FRound(1, P, e) ELSE FSquareCut(P, e, n)
FSquareUpBits(P, e, n) ==
  IF n <= MantBits THEN FRound(1, P, e)
  ELSE FSquareNext(P, e, n, BShr(P, n - MantBits))
FSquareDownOf(P, e) == FSquareDownBits(P, e, BBits(P))
FSquareUpOf(P, e) == FSquareUpBits(P, e, BBits(P))
FSquareDown(x) == IF x.s = 0 THEN Zero ELSE FSquareDownOf(BMul(x.m, x.m), 2 * x.e)
FSquareUp(x) == IF x.s = 0 THEN Zero ELSE FSquareUpOf(BMul(x.m, x.m), 2 * x.e)

\* the values pow(x, 2.0) may return
PowOutcomes(x) == {FSquareDown(x), FSquareUp(x)}

\* pw is the platform's pow(. , 2.0) on the arguments it has been called with: a
\* function from x to one of PowOutcomes(x)
NoPow == [x \in {} |-> Zero]
FSquare(x, pw) == pw[x]

\* the extensions of pw to the arguments xs
RECURSIVE PowChoices(_)
PowChoicesWith(x, rest) ==
  {(x :> p) @@ f : f \in PowChoices(rest \ {x}), p \in PowOutcomes(x)}
PowChoices(new) ==
  IF new = {} THEN {NoPow} ELSE PowChoicesWith(CHOOSE x \in new : TRUE, new)
PowExtensions(pw, xs) ==
  IF xs \subseteq DOMAIN pw THEN {pw}
  ELSE {f @@ pw : f \in PowChoices(xs \ DOMAIN pw)}

\* eta = eps_c / eps_c2; the argument 1.0 - eta of the square
PowArg(eps_c, eps_c2) == FSub(One, FDiv(eps_c, eps_c2))

\* fcd * (1.0 - (1.0 - eta)**2)
sigma_c_ec2_parabola(eps_c, fcd_, eps_c2, pw) ==
  FMul(fcd_, FSub(One, FSquare(PowArg(eps_c, eps_c2), pw)))

\* a faulty variant: the plateau carried on beyond eps_cu2
sigma_c_ec2_uncut(eps_c, fcd_, eps_c2, eps_cu2, pw) ==
  IF FLe(eps_c, Zero) THEN Zero
  ELSE IF FLe(eps_c, eps_c2) THEN sigma_c_ec2_parabola(eps_c, fcd_, eps_c2, pw)
  ELSE fcd_

\* the arguments on which sigma_c_ec2 calls pow
sigma_c_ec2_pow_args(eps_c, eps_c2) ==
  IF FGt(eps_c, Zero) /\ FLe(eps_c, eps_c2) THEN {PowArg(eps_c, eps_c2)} ELSE {}

sigma_c_ec2(eps_c, fcd_, eps_c2, eps_cu2, pw) ==
  IF FLe(eps_c, Zero) THEN Zero
  ELSE IF FLe(eps_c, eps_c2) THEN sigma_c_ec2_parabola(eps_c, fcd_, eps_c2, pw)
  ELSE IF FLe(eps_c, eps_cu2) THEN fcd_
  ELSE Zero

\* a faulty variant: no yield plateau
sigma_s_unclipped(sig, fyd_) == sig

\* the clip of sig = Es * eps_s to [-fyd, fyd]
sigma_s_clip(sig, fyd_) ==
  IF FGt(sig, fyd_) THEN fyd_
  ELSE IF FLt(sig, FNeg(fyd_)) THEN FNeg(fyd_)
  ELSE sig

sigma_s_bilineal(eps_s, Es, fyd_) == sigma_s_clip(FMul(Es, eps_s), fyd_)

\* ---- geometry of one call: in is the record of the call's arguments ----
\* a faulty variant: the ordinates are never reflected
map_y_unreflected(in, y) == y

map_y(in, y) == IF in.sign = "positivo" THEN y ELSE FSub(in.h_mm, y)

\* layers = [SteelLayer(y_mm=map_y(sl.y_mm), As_mm2=sl.As_mm2) for sl in steel_layers]
MappedLayers(in) ==
  [i \in 1..Len(in.steel_layers) |->
     [y_mm |-> map_y(in, in.steel_layers[i].y_mm), As_mm2 |-> in.steel_layers[i].As_mm2]]

SliceDy(in) == FDiv(in.h_mm, FInt(in.nlayers_concrete))

\* y_centers = [(i+0.5)*dy for i in range(nlayers_concrete)], as a sequence (index i+1)
SliceCentersOf(n, dy_) == [j \in 1..n |-> FMul(FAdd(FInt(j - 1), Half), dy_)]
SliceCenters(in) == SliceCentersOf(in.nlayers_concrete, SliceDy(in))

\* the locals of the call the closure section_resultants reads
Geo(in) == [layers |-> MappedLayers(in), dy |-> SliceDy(in), y_centers |-> SliceCenters(in)]

\* ---- section_resultants ----
MinDepth == Dec(1, 1000000)

\* kappa = mat.eps_cu2 / max(c_mm, 1e-6)
Curvature(in, c_mm) == FDiv(in.materials.eps_cu2, FMax(c_mm, MinDepth))

\* Fc = sig * b_mm * dy of the concrete slice at y
ConcreteForce(in, geo, fcd_, kappa, c_mm, y, pw) ==
  FMul(FMul(sigma_c_ec2(FMul(kappa, FSub(c_mm, y)), fcd_,
                        in.materials.eps_c2, in.materials.eps_cu2, pw),
            in.b_mm),
       geo.dy)

\* the loop over y_centers from index j on: <<Nc, Mc>>
RECURSIVE ConcreteSum(_, _, _, _, _, _, _, _, _)
ConcreteAdd(in, geo, fcd_, kappa, c_mm, j, Nc, Mc, pw, Fc) ==
  ConcreteSum(in, geo, fcd_, kappa, c_mm, j + 1,
              FAdd(Nc, Fc), FAdd(Mc, FMul(Fc, FAdd(geo.y_centers[j], Zero))), pw)
ConcreteSum(in, geo, fcd_, kappa, c_mm, j, Nc, Mc, pw) ==
  IF j > Len(geo.y_centers) THEN <<Nc, Mc>>
  ELSE ConcreteAdd(in, geo, fcd_, kappa, c_mm, j, Nc, Mc, pw,
                   ConcreteForce(in, geo, fcd_, kappa, c_mm, geo.y_centers[j], pw))

\* Fs = sig_s * As_mm2 of one steel layer (negative in tension)
SteelForce(in, fyd_, kappa, c_mm, sl) ==
  FMul(sigma_s_bilineal(FMul(kappa, FSub(c_mm, sl.y_mm)), in.materials.Es_MPa, fyd_),
       sl.As_mm2)

\* the loop over layers from index i on: <<Ns, Ms>>
RECURSIVE SteelSum(_, _, _, _, _, _, _, _)
SteelAdd(in, geo, fyd_, kappa, c_mm, i, Ns, Ms, Fs) ==
  SteelSum(in, geo, fyd_, kappa, c_mm, i + 1,
           FAdd(Ns, Fs), FAdd(Ms, FMul(Fs, geo.layers[i].y_mm)))
SteelSum(in, geo, fyd_, kappa, c_mm, i, Ns, Ms) ==
  IF i > Len(geo.layers) THEN <<Ns, Ms>>
  ELSE SteelAdd(in, geo, fyd_, kappa, c_mm, i, Ns, Ms,
                SteelForce(in, fyd_, kappa, c_mm, geo.layers[i]))

\* N = Nc + Ns; M = Mc + Ms; return N, M, kappa
Resultants(conc, steel, kappa) ==
  [N |-> FAdd(conc[1], steel[1]), M |-> FAdd(conc[2], steel[2]), kappa |-> kappa]

ResultantsAt(in, geo, c_mm, kappa, pw) ==
  Resultants(ConcreteSum(in, geo, fcd(in.materials), kappa, c_mm, 1, Zero, Zero, pw),
             SteelSum(in, geo, fyd(in.materials), kappa, c_mm, 1, Zero, Zero),
             kappa)

section_resultants(in, geo, c_mm, pw) ==
  ResultantsAt(in, geo, c_mm, Curvature(in, c_mm), pw)

\* the arguments on which section_resultants(c_mm) calls pow: one for every slice
\* whose strain is on the parabola
SlicePowArgs(in, kappa, c_mm, y) ==
  sigma_c_ec2_pow_args(FMul(kappa, FSub(c_mm, y)), in.materials.eps_c2)
PowArgsAt(in, geo, c_mm, kappa) ==
  UNION {SlicePowArgs(in, kappa, c_mm, geo.y_centers[j]) : j \in 1..Len(geo.y_centers)}
PowArgs(in, geo, c_mm) == PowArgsAt(in, geo, c_mm, Curvature(in, c_mm))

\* ---- the lever arm ----
\* if Fs < 0: T_abs += -Fs
TensionAdd(T, Fs) == IF FLt(Fs, Zero) THEN FAdd(T, FNeg(Fs)) ELSE T

\* the loop over layers from index i on
RECURSIVE TensionSum(_, _, _, _, _)
TensionSum(in, geo, c_, i, T) ==
  IF i > Len(geo.layers) THEN T
  ELSE TensionSum(in, geo, c_, i + 1,
                  TensionAdd(T, SteelForce(in, fyd(in.materials), Curvature(in, c_),
                                           c_, geo.layers[i])))

MinTension == Dec(1, 1000000000)

\* a faulty variant: 0.0 in place of the not-a-number sentinel
LeverArmZero(M, T) == IF FGt(T, MinTension) THEN FDiv(FAbs(M), T) ELSE Zero

\* z_eq = (abs(M_eq) / T_abs) if T_abs > 1e-9 else float('nan')
LeverArm(M, T) == IF FGt(T, MinTension) THEN FDiv(FAbs(M), T) ELSE NaN

\* ---- the arguments explored ----
MaxItmax == 2
MaxSlices == 2
MaxExpand == 8

Layer(y, A) == [y_mm |-> y, As_mm2 |-> A]
\* As_sup, As_inf of __main__: 2 and 4 bars of 16 mm
AsTop == area_barras(<<16, 16>>)
AsBottom == area_barras(<<16, 16, 16, 16>>)

\* the steel layouts of the 300 x 600 section of __main__, ordinates from the top
\* edge: the example's two layers, a mirror-symmetric pair, four equal layers
\* mirror-symmetric about mid-depth, no steel, one layer on the top edge, one
\* heavy layer far below the section
SteelLayouts ==
  { <<Layer(FInt(43), AsTop), Layer(FInt(557), AsBottom)>>,
    <<Layer(FInt(43), AsTop), Layer(FInt(557), AsTop)>>,
    <<Layer(FInt(150), AsTop), Layer(FInt(250), AsTop),
      Layer(FInt(350), AsTop), Layer(FInt(450), AsTop)>>,
    <<>>,
    <<Layer(Zero, AsTop)>>,
    <<Layer(FInt(2400), FInt(20000))>> }

\* a heavily reinforced 300 x 800 section
DeepLayouts == { <<Layer(FInt(750), FInt(20000))>> }

\* the default tolerance and a loose one
DefaultTol == Dec(1, 1000)
LooseTol == FInt(1000000)

ArgsOf(h, layouts, tols) ==
  [b_mm : {FInt(300)}, h_mm : {h}, steel_layers : layouts,
   materials : {Materials}, nlayers_concrete : 1..MaxSlices,
   sign : {"positivo", "negativo"}, tol_N : tols, itmax : 0..MaxItmax]

\* itmax: int = 120, the default
DefaultItmax == 120

\* the 300 x 600 section compressed from below: 4 bars of 16 mm near the
\* compressed edge, 2 + 2 bars just past mid-depth
ConvergedLayouts ==
  { <<Layer(FInt(280), AsTop), Layer(FInt(555), AsBottom), Layer(FInt(260), AsTop)>> }

\* calls that run the bisection to convergence: the default tolerance and the
\* default iteration limit, on one concrete slice
ConvergedArgs ==
  [b_mm : {FInt(300)}, h_mm : {FInt(600)}, steel_layers : ConvergedLayouts,
   materials : {Materials}, nlayers_concrete : {1},
   sign : {"negativo"}, tol_N : {DefaultTol}, itmax : {DefaultItmax}]

Args ==
  ArgsOf(FInt(600), SteelLayouts, {DefaultTol})
    \cup ArgsOf(FInt(800), DeepLayouts, {DefaultTol, LooseTol})
    \cup ConvergedArgs

NoRet == [MRd_kNm |-> None, c_mm |-> None, z_eq |-> None]

\* the strains and the material sets the laws are evaluated on
Tiny == FDiv(One, FMul(FMul(FInt(100000), FInt(100000)), FMul(FInt(100000), FInt(100000))))
NearEpsC2 == FDiv(FInt(1999999998), FMul(FInt(1000000), FInt(1000000)))
PastEpsCu2 == FDiv(FInt(35000001), FMul(FInt(100000), FInt(100000)))
PositiveStrains ==
  {Tiny, Dec(1, 10000), Dec(1, 1000), NearEpsC2, Dec(20, 10000), Dec(217, 100000),
   Dec(25, 10000), Dec(3, 1000), Dec(35, 10000), PastEpsCu2, Dec(1, 100)}
Strains == PositiveStrains \cup {Zero} \cup {FNeg(x) : x \in PositiveStrains}
MaterialSets ==
  {[Materials EXCEPT !.fck_MPa = FInt(k), !.fyk_MPa = FInt(y)] :
     k \in {25, 30}, y \in {400, 500}}

VARIABLES
  call,       \* 1 or 2: which of the program's successive calls is running
  variant,    \* how the arguments of call 2 derive from those of call 1
  inp,        \* the arguments of the running call
  hist,       \* the completed calls: their arguments and results
  pc,         \* position in mrd_fibers_rect
  layers, dy, y_centers,
  c_low, c_high, N_low, N_high, expand,
  sgn0,       \* sign of N_low * N_high when the expansion loop ended
  it,         \* bisection iterations executed
  c, c_mid, N_mid,
  exit,       \* how the bisection loop ended: "break" or "exhausted"
  N_eq, M_eq, T_abs, ret,
  nevals,     \* calls of section_resultants so far
  eps_in, law_mat, sig_c, sig_s,  \* one evaluation of the material laws
  pow_tab     \* the platform's pow(x, 2.0) on the arguments met so far

solver == <<layers, dy, y_centers, c_low, c_high, N_low, N_high, expand, sgn0, it,
            c, c_mid, N_mid, exit, N_eq, M_eq, T_abs, ret, nevals>>
laws == <<eps_in, law_mat, sig_c, sig_s>>
vars == <<call, variant, inp, hist, pc, solver, laws, pow_tab>>

geo_ == [layers |-> layers, dy |-> dy, y_centers |-> y_centers]

Unset ==
  /\ layers = <<>> /\ dy = None /\ y_centers = <<>>
  /\ c_low = None /\ c_high = None /\ N_low = None /\ N_high = None
  /\ expand = 0 /\ sgn0 = 0 /\ it = 0
  /\ c = None /\ c_mid = None /\ N_mid = None /\ exit = "none"
  /\ N_eq = None /\ M_eq = None /\ T_abs = None /\ ret = NoRet /\ nevals = 0

UnsetNext ==
  /\ layers' = <<>> /\ dy' = None /\ y_centers' = <<>>
  /\ c_low' = None /\ c_high' = None /\ N_low' = None /\ N_high' = None
  /\ expand' = 0 /\ sgn0' = 0 /\ it' = 0
  /\ c' = None /\ c_mid' = None /\ N_mid' = None /\ exit' = "none"
  /\ N_eq' = None /\ M_eq' = None /\ T_abs' = None /\ ret' = NoRet /\ nevals' = 0

LawsIdle == eps_in = None /\ law_mat = Materials /\ sig_c = None /\ sig_s = None

Init ==
  /\ call = 1 /\ variant = "primera" /\ inp \in Args /\ hist = <<>>
  /\ pc = "start"
  /\ Unset
  /\ LawsIdle
  /\ pow_tab = NoPow

\* ---- mrd_fibers_rect, one action per step ----
\* the mapping of the layers, the slices, the opening bracket and its two resultants
Start ==
  /\ pc = "start"
  /\ layers' = MappedLayers(inp)
  /\ dy' = SliceDy(inp)
  /\ y_centers' = SliceCentersOf(inp.nlayers_concrete, dy')
  /\ c_low' = Dec(1, 1000)
  /\ c_high' = FMul(FInt(3), inp.h_mm)
  /\ pow_tab' \in PowExtensions(pow_tab, PowArgs(inp, geo_', c_low')
                                          \cup PowArgs(inp, geo_', c_high'))
  /\ N_low' = section_resultants(inp, geo_', c_low', pow_tab').N
  /\ N_high' = section_resultants(inp, geo_', c_high', pow_tab').N
  /\ expand' = 0
  /\ nevals' = 2
  /\ pc' = "expand"
  /\ UNCHANGED <<call, variant, inp, hist, sgn0, it, c, c_mid, N_mid, exit,
                 N_eq, M_eq, T_abs, ret, laws>>

SameSign == FGt(FMul(N_low, N_high), Zero)

\* a faulty variant: the bracket is widened whatever the signs
ExpandUnguarded ==
  /\ pc = "expand"
  /\ expand < MaxExpand
  /\ c_high' = FMul(c_high, Dec(18, 10))
  /\ pow_tab' \in PowExtensions(pow_tab, PowArgs(inp, geo_, c_high'))
  /\ N_high' = section_resultants(inp, geo_, c_high', pow_tab').N
  /\ expand' = expand + 1
  /\ nevals' = nevals + 1
  /\ UNCHANGED <<call, variant, inp, hist, pc, layers, dy, y_centers, c_low, N_low,
                 sgn0, it, c, c_mid, N_mid, exit, N_eq, M_eq, T_abs, ret, laws>>

\* one pass of: while N_low * N_high > 0 and expand < 8
Expand ==
  /\ pc = "expand"
  /\ SameSign /\ expand < MaxExpand
  /\ c_high' = FMul(c_high, Dec(18, 10))
  /\ pow_tab' \in PowExtensions(pow_tab, PowArgs(inp, geo_, c_high'))
  /\ N_high' = section_resultants(inp, geo_, c_high', pow_tab').N
  /\ expand' = expand + 1
  /\ nevals' = nevals + 1
  /\ UNCHANGED <<call, variant, inp, hist, pc, layers, dy, y_centers, c_low, N_low,
                 sgn0, it, c, c_mid, N_mid, exit, N_eq, M_eq, T_abs, ret, laws>>

\* the while loop ends; c = None
ExpandEnd ==
  /\ pc = "expand"
  /\ ~(SameSign /\ expand < MaxExpand)
  /\ sgn0' = FMul(N_low, N_high).s
  /\ c' = None
  /\ it' = 0
  /\ pc' = "bisect"
  /\ UNCHANGED <<call, variant, inp, hist, layers, dy, y_centers, c_low, c_high, N_low,
                 N_high, expand, c_mid, N_mid, exit, N_eq, M_eq, T_abs, ret, nevals, laws, pow_tab>>

Midpoint == FMul(Half, FAdd(c_low, c_high))

\* the head of one pass of: for _ in range(itmax)
BisectEval ==
  /\ pc = "bisect"
  /\ it < inp.itmax
  /\ c_mid' = Midpoint
  /\ pow_tab' \in PowExtensions(pow_tab, PowArgs(inp, geo_, c_mid'))
  /\ N_mid' = section_resultants(inp, geo_, c_mid', pow_tab').N
  /\ it' = it + 1
  /\ nevals' = nevals + 1

\* a faulty variant: the loop is left without the tolerance test
BisectBreakUntested ==
  /\ BisectEval
  /\ c' = c_mid'
  /\ exit' = "break"
  /\ pc' = "final"
  /\ UNCHANGED <<call, variant, inp, hist, layers, dy, y_centers, c_low, c_high, N_low,
                 N_high, expand, sgn0, N_eq, M_eq, T_abs, ret, laws>>

\* abs(N_mid) < tol_N: c = c_mid; break
BisectBreak ==
  /\ BisectEval
  /\ FLt(FAbs(N_mid'), inp.tol_N)
  /\ c' = c_mid'
  /\ exit' = "break"
  /\ pc' = "final"
  /\ UNCHANGED <<call, variant, inp, hist, layers, dy, y_centers, c_low, c_high, N_low,
                 N_high, expand, sgn0, N_eq, M_eq, T_abs, ret, laws>>

\* N_low * N_mid <= 0: the midpoint becomes the upper end
BisectUpper ==
  /\ BisectEval
  /\ ~FLt(FAbs(N_mid'), inp.tol_N)
  /\ FLe(FMul(N_low, N_mid'), Zero)
  /\ c_high' = c_mid'
  /\ N_high' = N_mid'
  /\ c' = c_mid'
  /\ UNCHANGED <<call, variant, inp, hist, pc, layers, dy, y_centers, c_low, N_low,
                 expand, sgn0, exit, N_eq, M_eq, T_abs, ret, laws>>

\* a faulty variant: the lower end moves but keeps its old resultant
BisectLowerStale ==
  /\ BisectEval
  /\ ~FLt(FAbs(N_mid'), inp.tol_N)
  /\ ~FLe(FMul(N_low, N_mid'), Zero)
  /\ c_low' = c_mid'
  /\ c' = c_mid'
  /\ UNCHANGED <<call, variant, inp, hist, pc, layers, dy, y_centers, c_high, N_low,
                 N_high, expand, sgn0, exit, N_eq, M_eq, T_abs, ret, laws>>

\* otherwise the midpoint becomes the lower end
BisectLower ==
  /\ BisectEval
  /\ ~FLt(FAbs(N_mid'), inp.tol_N)
  /\ ~FLe(FMul(N_low, N_mid'), Zero)
  /\ c_low' = c_mid'
  /\ N_low' = N_mid'
  /\ c' = c_mid'
  /\ UNCHANGED <<call, variant, inp, hist, pc, layers, dy, y_centers, c_high, N_high,
                 expand, sgn0, exit, N_eq, M_eq, T_abs, ret, laws>>

\* range(itmax) is used up
BisectExhausted ==
  /\ pc = "bisect"
  /\ it >= inp.itmax
  /\ exit' = "exhausted"
  /\ pc' = "final"
  /\ UNCHANGED <<call, variant, inp, hist, layers, dy, y_centers, c_low, c_high, N_low,
                 N_high, expand, sgn0, it, c, c_mid, N_mid, N_eq, M_eq, T_abs, ret,
                 nevals, laws, pow_tab>>

\* section_resultants(None) is called and max(None, 1e-6) raises TypeError
FinalRaise ==
  /\ pc = "final"
  /\ c = None
  /\ pc' = "raised"
  /\ nevals' = nevals + 1
  /\ UNCHANGED <<call, variant, inp, hist, layers, dy, y_centers, c_low, c_high, N_low,
                 N_high, expand, sgn0, it, c, c_mid, N_mid, exit, N_eq, M_eq, T_abs, ret,
                 laws, pow_tab>>

\* a faulty variant: MRd keeps the sign of M
FinalWithSigned(r, T) ==
  /\ N_eq' = r.N
  /\ M_eq' = r.M
  /\ T_abs' = T
  /\ ret' = [MRd_kNm |-> FDiv(r.M, FInt(1000000)), c_mm |-> c,
             z_eq |-> LeverArm(r.M, T)]

\* a faulty variant: the lower end of the bracket is returned
FinalWithLowEnd(r, T) ==
  /\ N_eq' = r.N
  /\ M_eq' = r.M
  /\ T_abs' = T
  /\ ret' = [MRd_kNm |-> FDiv(FAbs(r.M), FInt(1000000)), c_mm |-> c_low,
             z_eq |-> LeverArm(r.M, T)]

\* N_eq, M_eq, kappa = section_resultants(c); MRd_kNm; T_abs; z_eq; return
FinalWith(r, T) ==
  /\ N_eq' = r.N
  /\ M_eq' = r.M
  /\ T_abs' = T
  /\ ret' = [MRd_kNm |-> FDiv(FAbs(r.M), FInt(1000000)), c_mm |-> c,
             z_eq |-> LeverArm(r.M, T)]

FinalReturn ==
  /\ pc = "final"
  /\ c # None
  /\ FinalWith(section_resultants(inp, geo_, c, pow_tab), TensionSum(inp, geo_, c, 1, Zero))
  /\ nevals' = nevals + 1
  /\ pc' = "done"
  /\ UNCHANGED <<call, variant, inp, hist, layers, dy, y_centers, c_low, c_high, N_low,
                 N_high, expand, sgn0, it, c, c_mid, N_mid, exit, laws, pow_tab>>

\* ---- the program: a first call, then a second one on related arguments ----
Reflected(in) ==
  [i \in 1..Len(in.steel_layers) |->
     Layer(FSub(in.h_mm, in.steel_layers[i].y_mm), in.steel_layers[i].As_mm2)]

\* the layers on the tension side: beyond mid-height from the compressed edge
TensionSide(in) ==
  {i \in 1..Len(in.steel_layers) :
     FGt(map_y(in, in.steel_layers[i].y_mm), FMul(Half, in.h_mm))}

ExtraArea == FInt(100)

MoreSteel(in, k) ==
  [in EXCEPT !.steel_layers[k].As_mm2 = FAdd(in.steel_layers[k].As_mm2, ExtraArea)]

\* "negativo": the same layers compressed from below (as __main__ does);
\* "reflejado": the reflected layers compressed from above;
\* "masAcero": more area in one tension-side layer
SecondArgs(v, in) ==
  CASE v = "negativo" ->
         IF in.sign = "positivo" THEN {[in EXCEPT !.sign = "negativo"]} ELSE {}
    [] v = "reflejado" ->
         IF in.sign = "negativo"
         THEN {[in EXCEPT !.sign = "positivo", !.steel_layers = Reflected(in)]} ELSE {}
    [] v = "masAcero" -> {MoreSteel(in, k) : k \in TensionSide(in)}

NextCall ==
  /\ pc = "done"
  /\ call = 1
  /\ \E v \in {"negativo", "reflejado", "masAcero"} :
       \E a \in SecondArgs(v, inp) :
         /\ variant' = v
         /\ inp' = a
  /\ hist' = Append(hist, [args |-> inp, ret |-> ret])
  /\ call' = 2
  /\ pc' = "start"
  /\ UnsetNext
  /\ UNCHANGED <<laws, pow_tab>>

Next ==
  \/ Start
  \/ Expand
  \/ ExpandEnd
  \/ BisectBreak
  \/ BisectUpper
  \/ BisectLower
  \/ BisectExhausted
  \/ FinalRaise
  \/ FinalReturn
  \/ NextCall

Spec == Init /\ [][Next]_vars

\* ---- the material laws on their own ----
InitLaws ==
  /\ call = 0 /\ variant = "leyes" /\ inp = [itmax |-> 0] /\ hist = <<>>
  /\ pc = "laws"
  /\ Unset
  /\ eps_in \in Strains /\ law_mat \in MaterialSets
  /\ sig_c = None /\ sig_s = None
  /\ pow_tab = NoPow

EvalConcrete ==
  /\ pc = "laws"
  /\ sig_c = None
  /\ pow_tab' \in PowExtensions(pow_tab, sigma_c_ec2_pow_args(eps_in, law_mat.eps_c2))
  /\ sig_c' = sigma_c_ec2(eps_in, fcd(law_mat), law_mat.eps_c2, law_mat.eps_cu2, pow_tab')
  /\ UNCHANGED <<call, variant, inp, hist, pc, solver, eps_in, law_mat, sig_s>>

EvalSteel ==
  /\ pc = "laws"
  /\ sig_s = None
  /\ sig_s' = sigma_s_bilineal(eps_in, law_mat.Es_MPa, fyd(law_mat))
  /\ UNCHANGED <<call, variant, inp, hist, pc, solver, eps_in, law_mat, sig_c, pow_tab>>

NextLaws == EvalConcrete \/ EvalSteel

SpecLaws == InitLaws /\ [][NextLaws]_vars

\* ---- the claims ----
\* every layer at y with area A has a partner at h - y with area A
MirrorSymmetric(in) ==
  \A i \in 1..Len(in.steel_layers) :
    \E j \in 1..Len(in.steel_layers) :
      /\ in.steel_layers[j].y_mm = FSub(in.h_mm, in.steel_layers[i].y_mm)
      /\ in.steel_layers[j].As_mm2 = in.steel_layers[i].As_mm2

\* a pass of the bisection loop that moved an end of the bracket
BisectionUpdate == pc = "bisect" /\ pc' = "bisect" /\ it' = it + 1

\* C1, as stated: the call never raises; it returns a triple whose c is a number.
\* Refuted by itmax = 0: no midpoint is computed, c is still None and
\* section_resultants(None) raises TypeError.
C1_NeverRaises == pc # "raised" /\ (pc = "done" => IsNum(ret.c_mm))

\* C2, as stated: when N_low and N_high have opposite signs after the expansion,
\* the returned depth satisfies |N(c*)| <= tol_N.
C2_Equilibrium == (pc = "done" /\ sgn0 < 0) => FLe(FAbs(N_eq), inp.tol_N)

\* C2, amended: when the loop was left by the tolerance test, the resultant at the
\* returned depth is the one of the last midpoint and |N(c*)| < tol_N; a loop that
\* used up its itmax passes promises nothing about N(c*).
C2_EquilibriumOnBreak ==
  (pc = "done" /\ exit = "break") =>
    /\ ret.c_mm = c_mid
    /\ N_eq = N_mid
    /\ N_eq = section_resultants(inp, geo_, ret.c_mm, pow_tab).N
    /\ FLt(FAbs(N_eq), inp.tol_N)

C2_Witness == pc = "done" /\ exit = "break" /\ sgn0 < 0 /\ N_eq.s # 0

\* C3: a call that returns, returns the midpoint of the last pass of the bisection
\* loop, however the loop ended and whether or not the bracket held a sign change.
C3_LastMidpoint ==
  (pc = "done") =>
    /\ it >= 1
    /\ ret.c_mm = c_mid
    /\ exit \in {"break", "exhausted"}
    /\ exit = "exhausted" => (it = inp.itmax /\ ret.c_mm \in {c_low, c_high})
    /\ exit = "break" => FLt(FAbs(N_mid), inp.tol_N)

C3_Witness ==
  pc = "done" /\ exit = "exhausted" /\ sgn0 > 0 /\ it = MaxItmax /\ ret.c_mm = c_mid

\* C4, as stated: for mirror-symmetric steel layers the compress-top and the
\* compress-bottom calls return the same MRd.
C4_SameMRd ==
  (pc = "done" /\ call = 2 /\ variant = "negativo" /\ MirrorSymmetric(inp)) =>
    ret.MRd_kNm = hist[1].ret.MRd_kNm

\* C4, amended: the compress-bottom call on layers L returns exactly what the
\* compress-top call on the reflected layers (same order) returns; for
\* mirror-symmetric layers the two MRd are equal when there are at most two layers,
\* and with more layers they may differ by the rounding of the sums.
C4_SignSymmetry ==
  (pc = "done" /\ call = 2) =>
    /\ variant = "reflejado" => ret = hist[1].ret
    /\ (variant = "negativo" /\ MirrorSymmetric(inp) /\ Len(inp.steel_layers) <= 2) =>
         ret.MRd_kNm = hist[1].ret.MRd_kNm

C4_Witness ==
  /\ pc = "done" /\ call = 2 /\ variant = "reflejado"
  /\ Len(inp.steel_layers) >= 2 /\ ~MirrorSymmetric(inp)
  /\ IsNum(ret.MRd_kNm) /\ ret = hist[1].ret

\* the layers whose area differs between the two calls
Enlarged ==
  {k \in 1..Len(layers) :
     inp.steel_layers[k].As_mm2 # hist[1].args.steel_layers[k].As_mm2}

\* N and M of the first call's section at the depth the first call returned
FirstAtReturned ==
  section_resultants(hist[1].args, Geo(hist[1].args), hist[1].ret.c_mm, pow_tab)

C6_LeverArm ==
  (pc = "done") =>
    LET T == TensionSum(inp, geo_, ret.c_mm, 1, Zero)
        M == section_resultants(inp, geo_, ret.c_mm, pow_tab).M
        NoTension ==
          \A i \in 1..Len(layers) :
            ~FLt(SteelForce(inp, fyd(inp.materials), Curvature(inp, ret.c_mm),
                            ret.c_mm, layers[i]), Zero)
    IN  /\ IsNum(T) /\ FGe(T, Zero)
        /\ FGt(T, Dec(1, 1000000000)) => ret.z_eq = FDiv(FAbs(M), T)
        /\ ~FGt(T, Dec(1, 1000000000)) => ret.z_eq = NaN
        /\ NoTension => (T = Zero /\ ret.z_eq = NaN)

C6_Witness == pc = "done" /\ layers # <<>> /\ ret.z_eq = NaN /\ T_abs = Zero

\* C7, as stated, in its part on the parabola: strictly between 0 and fcd for
\* 0 < strain < eps_c2.
C7_StrictParabola ==
  (sig_c # None /\ FGt(eps_in, Zero) /\ FLt(eps_in, law_mat.eps_c2)) =>
    (FGt(sig_c, Zero) /\ FLt(sig_c, fcd(law_mat)))

\* C7, amended: the stress is between 0 and fcd, both included; 0 for strain <= 0
\* and for strain > eps_cu2; fcd * (1 - (1 - strain/eps_c2)^2) in floats, the
\* square being one of the values pow may return, for 0 < strain < eps_c2, which
\* rounds to 0 or to fcd near the ends of that range; fcd for
\* eps_c2 <= strain <= eps_cu2.
C7_ConcreteLaw ==
  (sig_c # None) =>
    /\ FGe(sig_c, Zero) /\ FLe(sig_c, fcd(law_mat))
    /\ (FLe(eps_in, Zero) \/ FGt(eps_in, law_mat.eps_cu2)) => sig_c = Zero
    /\ (FGt(eps_in, Zero) /\ FLt(eps_in, law_mat.eps_c2)) =>
         \E p \in PowOutcomes(FSub(One, FDiv(eps_in, law_mat.eps_c2))) :
           sig_c = FMul(fcd(law_mat), FSub(One, p))
    /\ (FGe(eps_in, law_mat.eps_c2) /\ FLe(eps_in, law_mat.eps_cu2)) =>
         sig_c = fcd(law_mat)

C7_Witness ==
  /\ sig_c # None /\ FGt(eps_in, Zero) /\ FLt(eps_in, law_mat.eps_c2)
  /\ FGt(sig_c, Zero) /\ FLt(sig_c, fcd(law_mat))

\* C8: the steel stress is odd in the strain, never exceeds fyd in magnitude, is
\* Es * strain while |Es * strain| <= fyd, and otherwise fyd with the sign of the
\* strain.
C8_SteelLaw ==
  (sig_s # None) =>
    /\ sigma_s_bilineal(FNeg(eps_in), law_mat.Es_MPa, fyd(law_mat)) = FNeg(sig_s)
    /\ FLe(FAbs(sig_s), fyd(law_mat))
    /\ IF FLe(FAbs(FMul(law_mat.Es_MPa, eps_in)), fyd(law_mat))
       THEN sig_s = FMul(law_mat.Es_MPa, eps_in)
       ELSE FAbs(sig_s) = fyd(law_mat) /\ sig_s.s = eps_in.s

C8_Witness ==
  /\ sig_s # None /\ eps_in.s = -1
  /\ FGt(FAbs(FMul(law_mat.Es_MPa, eps_in)), fyd(law_mat))
  /\ sig_s = FNeg(fyd(law_mat))

\* C9, as stated: from a bracket with N_low * N_high <= 0, every pass that moves an
\* end leaves c_low < c_high, N_low = N(c_low), N_high = N(c_high),
\* N_low * N_high <= 0, the new bracket inside the old one, and a width that is
\* half the old width.
C9_HalfWidth ==
  [][(BisectionUpdate /\ sgn0 <= 0) =>
       /\ FLt(c_low', c_high')
       /\ N_low' = section_resultants(inp, geo_, c_low', pow_tab').N
       /\ N_high' = section_resultants(inp, geo_, c_high', pow_tab').N
       /\ FLe(FMul(N_low', N_high'), Zero)
       /\ FLe(c_low, c_low') /\ FLe(c_high', c_high)
       /\ FSub(c_high', c_low') = FMul(Half, FSub(c_high, c_low))]_vars

\* C9, amended: from a bracket with N_low * N_high <= 0, every pass that moves an
\* end replaces one end by the rounded midpoint 0.5 * (c_low + c_high) and keeps
\* the other; then c_low <= c_high, N_low = N(c_low), N_high = N(c_high),
\* N_low * N_high <= 0, the new bracket lies inside the old one, and while the
\* midpoint is strictly inside, c_low < c_high and the bracket is narrower. The new
\* width is half the old one only up to rounding.
C9_Bracketing ==
  [][(BisectionUpdate /\ sgn0 <= 0) =>
       /\ c_mid' = FMul(Half, FAdd(c_low, c_high))
       /\ \/ c_low' = c_low /\ c_high' = c_mid'
          \/ c_low' = c_mid' /\ c_high' = c_high
       /\ FLe(c_low', c_high')
       /\ N_low' = section_resultants(inp, geo_, c_low', pow_tab').N
       /\ N_high' = section_resultants(inp, geo_, c_high', pow_tab').N
       /\ FLe(FMul(N_low', N_high'), Zero)
       /\ FLe(c_low, c_low') /\ FLe(c_high', c_high)
       /\ (FLt(c_low, c_mid') /\ FLt(c_mid', c_high)) =>
            /\ FLt(c_low', c_high')
            /\ FLt(FSub(c_high', c_low'), FSub(c_high, c_low))]_vars

C9_Witness ==
  /\ pc = "bisect" /\ sgn0 < 0 /\ it >= 2
  /\ c_low = c_mid
  /\ FLt(FMul(N_low, N_high), Zero)
  /\ FLt(Dec(1, 1000), c_low) /\ FLt(c_high, FMul(FInt(3), inp.h_mm))

\* C10: the bracket is widened only while N_low * N_high > 0, at most 8 times, each
\* time by c_high := 1.8 * c_high with N_high re-evaluated and c_low kept; the
\* bisection evaluates at most itmax midpoints and none after a midpoint with
\* |N_mid| < tol_N; a call makes at most 2 + 8 + itmax + 1 resultant evaluations,
\* the one that raises when itmax = 0 included.
C10_BoundedSearch ==
  [][/\ (call' = call /\ expand' # expand) =>
          /\ FGt(FMul(N_low, N_high), Zero)
          /\ expand' = expand + 1 /\ expand' <= 8
          /\ c_high' = FMul(c_high, Dec(18, 10))
          /\ N_high' = section_resultants(inp, geo_, c_high', pow_tab').N
          /\ c_low' = c_low /\ N_low' = N_low
          /\ nevals' = nevals + 1
     /\ (call' = call /\ it' # it) =>
          /\ it' = it + 1 /\ it' <= inp.itmax
          /\ exit = "none"
          /\ it >= 1 => ~FLt(FAbs(N_mid), inp.tol_N)
          /\ FLt(FAbs(N_mid'), inp.tol_N) => (exit' = "break" /\ pc' = "final")
          /\ nevals' = nevals + 1
     /\ (call' = call) => nevals' <= 2 + 8 + inp.itmax + 1
     /\ (call' = call /\ pc' = "done") => nevals' = 2 + expand + it + 1
     /\ (call' = call /\ pc' = "raised") => (it = 0 /\ nevals' = 2 + expand + 1)]_vars

C10_Witness ==
  /\ pc = "done" /\ expand = 8 /\ it = inp.itmax /\ inp.itmax = MaxItmax
  /\ nevals = 2 + 8 + inp.itmax + 1
====
